---- MODULE Spec2Model ----
(***************************************************************************)
(* Transaction submission of arweave-rs: TxClient::post_transaction (the   *)
(* bounded retry loop of src/transaction/client.rs) and the submission     *)
(* orchestrator of src/lib.rs (upload_file_from_path,                      *)
(* post_transaction_chunks, upload_transaction_chunks_stream).             *)
(*                                                                         *)
(* One top-level call runs at a time (the Arweave methods take &self and   *)
(* are awaited by the caller); inside the chunked phase the chunk uploads  *)
(* are the concurrent futures held by buffer_unordered.  Every await of a  *)
(* network call is a step boundary; the gateway's answer is an input.      *)
(***************************************************************************)
EXTENDS Integers, Sequences, FiniteSets, TLC

(* ------------------------------ bounds --------------------------------- *)
\* largest concurrency cap passed directly to post_transaction_chunks
MaxCap == 2
\* largest payload length, in chunk-sized units
MaxData == 3
\* top-level calls made one after the other on the same Arweave value
MaxCalls == 2

(* --------------------------- program constants ------------------------- *)
\* consts::CHUNKS_RETRIES, the retry bound (its documented default)
CHUNKS_RETRIES == 10
\* consts::MAX_TX_DATA, the inline threshold, in chunk-sized units
MAX_TX_DATA == 2
\* the cap upload_file_from_path passes to post_transaction_chunks
DEFAULT_CHUNKS_BUFFER == 100

\* HTTP statuses the gateway may answer to POST /tx
Statuses == {"OK", "ACCEPTED", "NOT_FOUND", "BAD_REQUEST"}
\* what one send() can produce: a status, or a transport failure
SendOutcomes == Statuses \cup {"SEND_ERROR"}
\* how one chunk upload (with its retries) can end: accepted, or given up
\* with one of two causes
ChunkOutcomes == {"OK", "StatusCodeNotOk", "PostChunkError"}

\* transaction ids as byte strings; the empty one is the unsigned envelope
NoId == << >>
Ids == {NoId, <<1>>, <<2>>}
Rewards == {7}

\* Base64's Display: the id as the caller of Arweave::post_transaction sees it
to_string(bytes) == <<"base64url", bytes>>

\* the chunk sequence the builder cuts a payload into: one chunk per unit
MaxChunks == MaxData
ChunksOf(dataLen) == dataLen

Envelopes ==
  { e \in [id : Ids, reward : Rewards, dataLen : 0..MaxData, nChunks : 0..MaxChunks] :
      e.nChunks = ChunksOf(e.dataLen) }

\* Tx::clone_with_no_data: same metadata, data field cleared
clone_with_no_data(t) == [t EXCEPT !.dataLen = 0]

NoTx == [id |-> NoId, reward |-> 0, dataLen |-> 0, nChunks |-> 0]
NoResult == [kind |-> "none", id |-> NoId, reward |-> 0, err |-> "none"]
OkResult(i, r) == [kind |-> "ok", id |-> i, reward |-> r, err |-> "none"]
ErrResult(e) == [kind |-> "err", id |-> NoId, reward |-> 0, err |-> e]
PanicResult(m) == [kind |-> "panic", id |-> NoId, reward |-> 0, err |-> m]

Min(a, b) == IF a < b THEN a ELSE b

VARIABLES
  api,          \* the operation called: "none" before the first call
  inChunks,     \* TRUE while post_transaction_chunks is on the call stack
  pc,           \* "idle", "post" (inside post_transaction), "stream", "returned"
  tx,           \* the envelope handed to the operation
  buffer,       \* chunks_buffer of post_transaction_chunks
  postTx,       \* the envelope handed to TxClient::post_transaction
  retries,      \* post_transaction's local retries
  status,       \* post_transaction's local status
  attempts,     \* requests sent by the current post_transaction call
  sleeps,       \* sleeps taken by the current post_transaction call
  postCalls,    \* post_transaction calls made by the current operation
  postRes,      \* what the last post_transaction call returned
  spent,        \* failed attempts of the post_transaction call before this
                \* one on the same TxClient; kept only by SpecCalls
  next,         \* indices already taken from stream::iter(0..chunks.len())
  in_progress,  \* chunk indices whose upload future is in the buffer
  started,      \* per chunk index: uploads started in this operation
  results,      \* the collected Vec<Result<usize, Error>>, in completion order
  shadow,       \* the results a second run of the same submission collects
                \* under the same schedule with answers of its own; used
                \* only by SpecPair, empty under the other specifications
  chunksRes,    \* what post_transaction_chunks returned
  arg,          \* the arguments of a Signer::verify call
  requests,     \* requests sent by the current read-endpoint call
  reply,        \* the gateway's reply to the read request
  ret,          \* what the read endpoint or verify returned
  outcome,      \* what the operation returned to its caller
  calls         \* operations started so far

vars == <<api, inChunks, pc, tx, buffer, postTx, retries, status, attempts, sleeps,
          postCalls, postRes, spent, next, in_progress, started,
          results, shadow, chunksRes, arg, requests, reply, ret, outcome, calls>>

postVars == <<postTx, retries, status, attempts, sleeps, postCalls, postRes, spent>>
streamVars == <<next, in_progress, started, results, shadow>>
queryVars == <<arg, requests, reply, ret>>

\* no verify call and no read in hand
NoArg == [key |-> "none", msg |-> "none", sig |-> "none"]
NoReply == [kind |-> "none", status |-> "none", text |-> "none"]
NoRet == [kind |-> "none", status |-> "none", body |-> "none", err |-> "none"]

ChunkIdx == 0..(MaxChunks - 1)
ZeroPerChunk == [i \in ChunkIdx |-> 0]

Init ==
  /\ api = "none"
  /\ inChunks = FALSE
  /\ pc = "idle"
  /\ tx = NoTx
  /\ buffer = 0
  /\ postTx = NoTx
  /\ retries = 0
  /\ status = "NOT_FOUND"
  /\ attempts = 0
  /\ sleeps = 0
  /\ postCalls = 0
  /\ postRes = NoResult
  /\ spent = 0
  /\ next = 0
  /\ in_progress = {}
  /\ started = ZeroPerChunk
  /\ results = << >>
  /\ shadow = << >>
  /\ chunksRes = NoResult
  /\ arg = NoArg
  /\ requests = 0
  /\ reply = NoReply
  /\ ret = NoRet
  /\ outcome = NoResult
  /\ calls = 0

(* ------------------- returning to the caller ---------------------------- *)
\* Arweave::post_transaction maps the client's (Base64, u64) to (String, u64)
MapId(res) == IF res.kind = "ok" THEN OkResult(to_string(res.id), res.reward) ELSE res

\* upload_file_from_path .expect()s the result of either branch; the panic
\* message is expect's text followed by the Debug of the error
Expect(a, r, msg) ==
  IF a = "upload_file_from_path" /\ r.kind = "err" THEN PanicResult(<<msg, r.err>>) ELSE r

\* post_transaction_chunks returns r to whoever called it
ReturnFromChunks(a, r) ==
  /\ pc' = "returned"
  /\ chunksRes' = r
  /\ outcome' = Expect(a, r, "Could not post transaction chunks")

\* Arweave::post_transaction, called as the inline path, returns r
ReturnFromInline(a, r) ==
  /\ pc' = "returned"
  /\ chunksRes' = NoResult
  /\ outcome' = Expect(a, r, "Could not post transaction")

\* a caller that drops the header post's result and goes on to the chunks
PostReturnsIgnoringError(a, chunked, res) ==
  /\ postRes' = res
  /\ IF chunked
       THEN pc' = "stream" /\ chunksRes' = NoResult /\ outcome' = NoResult
       ELSE ReturnFromInline(a, MapId(res))

\* TxClient::post_transaction returns res; the caller's code runs up to its
\* next await: the `?` of line 226, or the return of the inline path
PostReturns(a, chunked, res) ==
  /\ postRes' = res
  /\ IF chunked
       THEN IF res.kind = "ok"
              THEN pc' = "stream" /\ chunksRes' = NoResult /\ outcome' = NoResult
              ELSE ReturnFromChunks(a, MapId(res))
       ELSE ReturnFromInline(a, MapId(res))

(* ------------------- TxClient::post_transaction ------------------------- *)
\* an entry without the check of lines 36-38
EnterPostUnchecked(a, chunked, p) ==
  /\ postTx' = p
  /\ postCalls' = 1
  /\ attempts' = 0
  /\ sleeps' = 0
  /\ retries' = 0
  /\ status' = "NOT_FOUND"
  /\ pc' = "post" /\ postRes' = NoResult /\ chunksRes' = NoResult /\ outcome' = NoResult

\* an entry that goes on from the retries the call before left behind, as
\* if the counter were a field of the TxClient
EnterPostSharedBudget(a, chunked, p) ==
  /\ postTx' = p
  /\ postCalls' = 1
  /\ attempts' = 0
  /\ sleeps' = 0
  /\ retries' = spent
  /\ status' = "NOT_FOUND"
  /\ IF p.id = NoId
       THEN PostReturns(a, chunked, ErrResult("UnsignedTransaction"))
       ELSE pc' = "post" /\ postRes' = NoResult /\ chunksRes' = NoResult /\ outcome' = NoResult

\* entry of post_transaction up to the first evaluation of the loop condition
EnterPost(a, chunked, p) ==
  /\ postTx' = p
  /\ postCalls' = 1
  /\ attempts' = 0
  /\ sleeps' = 0
  /\ retries' = 0
  /\ status' = "NOT_FOUND"
  /\ IF p.id = NoId
       THEN PostReturns(a, chunked, ErrResult("UnsignedTransaction"))
       ELSE pc' = "post" /\ postRes' = NoResult /\ chunksRes' = NoResult /\ outcome' = NoResult

\* a loop that allows one attempt more than the bound
LoopConditionOffByOne == (retries <= CHUNKS_RETRIES) /\ (status # "OK")

\* the loop condition of line 46
LoopCondition == (retries < CHUNKS_RETRIES) /\ (status # "OK")

\* an iteration without the early return of lines 58-60
PostAttemptNoEarlyReturn(o) ==
  /\ pc = "post"
  /\ (retries < CHUNKS_RETRIES) /\ (status # "OK")
  /\ attempts' = attempts + 1
  /\ IF o = "SEND_ERROR"
       THEN /\ PostReturns(api, inChunks, PanicResult("Could not post transaction"))
            /\ UNCHANGED <<status, retries, sleeps>>
       ELSE /\ status' = o
            /\ sleeps' = sleeps + 1
            /\ retries' = retries + 1
            /\ UNCHANGED <<pc, postRes, chunksRes, outcome>>
  /\ UNCHANGED <<api, inChunks, tx, buffer, postTx, postCalls, spent, calls>>
  /\ UNCHANGED streamVars
  /\ UNCHANGED queryVars

\* one iteration of the loop: send, await the response, then lines 56-62
PostAttempt(o) ==
  /\ pc = "post"
  /\ LoopCondition
  /\ attempts' = attempts + 1
  /\ IF o = "SEND_ERROR"
       THEN /\ PostReturns(api, inChunks, PanicResult("Could not post transaction"))
            /\ UNCHANGED <<status, retries, sleeps>>
       ELSE /\ status' = o
            /\ IF o = "OK"
                 THEN /\ PostReturns(api, inChunks, OkResult(postTx.id, postTx.reward))
                      /\ UNCHANGED <<retries, sleeps>>
                 ELSE /\ sleeps' = sleeps + 1
                      /\ retries' = retries + 1
                      /\ UNCHANGED <<pc, postRes, chunksRes, outcome>>
  /\ UNCHANGED <<api, inChunks, tx, buffer, postTx, postCalls, spent, calls>>
  /\ UNCHANGED streamVars
  /\ UNCHANGED queryVars

\* the loop condition is false: line 65
PostExhausted ==
  /\ pc = "post"
  /\ ~LoopCondition
  /\ PostReturns(api, inChunks, ErrResult("StatusCodeNotOk"))
  /\ UNCHANGED <<api, inChunks, tx, buffer, postTx, retries, status, attempts,
                 sleeps, postCalls, spent, calls>>
  /\ UNCHANGED streamVars
  /\ UNCHANGED queryVars

(* ------------------- the operations' entries ---------------------------- *)
FreshStream ==
  /\ next' = 0
  /\ in_progress' = {}
  /\ started' = ZeroPerChunk
  /\ results' = << >>
  /\ shadow' = << >>

NoPost ==
  /\ postTx' = NoTx
  /\ postCalls' = 0
  /\ attempts' = 0
  /\ sleeps' = 0
  /\ retries' = 0
  /\ status' = "NOT_FOUND"
  /\ postRes' = NoResult

\* an entry without the check of lines 221-223: the header-only clone goes
\* straight to post_transaction
EnterChunksUnchecked(a, t) == EnterPost(a, TRUE, clone_with_no_data(t))

\* post_transaction_chunks up to its first await (lines 221-226)
EnterChunks(a, t) ==
  IF t.id = NoId
    THEN ReturnFromChunks(a, ErrResult("UnsignedTransaction")) /\ NoPost
    ELSE EnterPost(a, TRUE, clone_with_no_data(t))

CanStart == pc = "idle" /\ calls < MaxCalls

\* a threshold that sends the boundary length down the chunked path
IsChunkedAtBoundary(t) == t.dataLen >= MAX_TX_DATA

\* the decision of line 203
IsChunked(t) == t.dataLen > MAX_TX_DATA

\* upload_file_from_path from line 203 on: the envelope is signed
UploadFile(t) ==
  /\ CanStart
  /\ t.id # NoId
  /\ api' = "upload_file_from_path"
  /\ tx' = t
  /\ calls' = calls + 1
  /\ UNCHANGED spent
  /\ UNCHANGED queryVars
  /\ FreshStream
  /\ IF IsChunked(t)
       THEN inChunks' = TRUE /\ buffer' = DEFAULT_CHUNKS_BUFFER /\ EnterChunks("upload_file_from_path", t)
       ELSE inChunks' = FALSE /\ buffer' = 0 /\ EnterPost("upload_file_from_path", FALSE, t)

\* Arweave::post_transaction called by the user
PostTransaction(t) ==
  /\ CanStart
  /\ api' = "post_transaction"
  /\ tx' = t
  /\ calls' = calls + 1
  /\ UNCHANGED spent
  /\ UNCHANGED queryVars
  /\ inChunks' = FALSE
  /\ buffer' = 0
  /\ FreshStream
  /\ EnterPost("post_transaction", FALSE, t)

\* post_transaction_chunks called with a cap of the caller's choice
PostTransactionChunks(t, cap) ==
  /\ CanStart
  /\ api' = "post_transaction_chunks"
  /\ tx' = t
  /\ calls' = calls + 1
  /\ UNCHANGED spent
  /\ UNCHANGED queryVars
  /\ inChunks' = TRUE
  /\ buffer' = cap
  /\ FreshStream
  /\ EnterChunks("post_transaction_chunks", t)

(* ------------------- the chunk stream ----------------------------------- *)
\* a stream that stops one index short of the chunk sequence
StreamLenShort(t) == IF t.nChunks > 0 THEN t.nChunks - 1 ELSE 0

\* the length of stream::iter(0..signed_transaction.chunks.len())
StreamLen(t) == t.nChunks

\* a buffer that pulls only while in_progress_queue.len() + 1 < max
FillCountOneShort == Min(buffer - 1 - Cardinality(in_progress), StreamLen(tx) - next)

\* a buffer that takes every remaining future whatever the cap
FillCountUncapped == StreamLen(tx) - next

\* futures buffer_unordered takes from the iterator at the start of a poll:
\* while in_progress_queue.len() < max it pulls the next one
FillCount == Min(buffer - Cardinality(in_progress), StreamLen(tx) - next)

\* a stream that is polled while the header post is still awaited
CanFillBeforeHeader == pc \in {"post", "stream"} /\ inChunks /\ FillCount > 0

\* the stream is polled only by collect(), after line 226 returned Ok
CanFill == pc = "stream" /\ FillCount > 0

StreamFill ==
  /\ CanFill
  /\ LET new == next..(next + FillCount - 1) IN
       /\ next' = next + FillCount
       /\ in_progress' = in_progress \cup new
       /\ started' = [i \in ChunkIdx |-> IF i \in new THEN started[i] + 1 ELSE started[i]]
  /\ UNCHANGED <<api, inChunks, pc, tx, buffer, results, shadow, chunksRes, outcome, calls>>
  /\ UNCHANGED postVars
  /\ UNCHANGED queryVars

ChunkOk(i) == [idx |-> i, ok |-> TRUE, err |-> "none"]
ChunkErr(i, e) == [idx |-> i, ok |-> FALSE, err |-> e]

\* what Uploader::post_chunk_with_retries resolves to for chunk i when the
\* gateway's answers over its attempts amount to o
ChunkResultOf(i, o) == IF o = "OK" THEN ChunkOk(i) ELSE ChunkErr(i, o)

\* the upload future of chunk i resolves; buffer_unordered yields its result
\* and collect() pushes it
ChunkCompletes(i, o) ==
  /\ pc = "stream"
  /\ ~CanFill
  /\ i \in in_progress
  /\ results' = Append(results, ChunkResultOf(i, o))
  /\ in_progress' = in_progress \ {i}
  /\ UNCHANGED <<api, inChunks, pc, tx, buffer, next, started, chunksRes, outcome, calls>>
  /\ UNCHANGED postVars
  /\ UNCHANGED queryVars

ChunkDone(i, o) == ChunkCompletes(i, o) /\ UNCHANGED shadow

\* the same completion in two runs of the submission: the gateway's answers
\* amount to o in the one and to o2 in the other
ChunkDonePair(i, o, o2) ==
  /\ ChunkCompletes(i, o)
  /\ shadow' = Append(shadow, ChunkResultOf(i, o2))

\* an aggregation that reports the last failure instead of the first
RECURSIVE CollectLastError(_)
CollectLastError(rs) ==
  IF rs = << >> THEN "none"
  ELSE IF ~rs[Len(rs)].ok THEN rs[Len(rs)].err
  ELSE CollectLastError(SubSeq(rs, 1, Len(rs) - 1))

\* an aggregation without the ? of line 233: failures are dropped
CollectIgnoringErrors(rs) == "none"

\* results.into_iter().collect::<Result<Vec<usize>, Error>>()
RECURSIVE CollectResult(_)
CollectResult(rs) ==
  IF rs = << >> THEN "none"
  ELSE IF ~Head(rs).ok THEN Head(rs).err
  ELSE CollectResult(Tail(rs))

\* lines 233-235 on the collected results rs: the first Err, or the header
\* post's (id, reward)
ChunksResult(rs) ==
  LET e == CollectResult(rs) IN
    IF e # "none" THEN ErrResult(e) ELSE MapId(postRes)

\* a stream that ends as soon as the iterator is exhausted, with uploads
\* still in the buffer
StreamEndEarly ==
  /\ pc = "stream"
  /\ buffer > 0
  /\ next = StreamLen(tx)
  /\ ReturnFromChunks(api, ChunksResult(results))
  /\ UNCHANGED <<api, inChunks, tx, buffer, calls>>
  /\ UNCHANGED postVars
  /\ UNCHANGED streamVars
  /\ UNCHANGED queryVars

\* a stream cut at the first failed upload, as try_collect would
StreamEndAtFirstFailure ==
  /\ pc = "stream"
  /\ buffer > 0
  /\ \/ next = StreamLen(tx) /\ in_progress = {}
     \/ CollectResult(results) # "none"
  /\ ReturnFromChunks(api, ChunksResult(results))
  /\ UNCHANGED <<api, inChunks, tx, buffer, calls>>
  /\ UNCHANGED postVars
  /\ UNCHANGED streamVars
  /\ UNCHANGED queryVars

\* the stream is exhausted: collect() is over, lines 233-235
StreamEnd ==
  /\ pc = "stream"
  /\ buffer > 0
  /\ next = StreamLen(tx)
  /\ in_progress = {}
  /\ ReturnFromChunks(api, ChunksResult(results))
  /\ UNCHANGED <<api, inChunks, tx, buffer, calls>>
  /\ UNCHANGED postVars
  /\ UNCHANGED streamVars
  /\ UNCHANGED queryVars

\* the caller has taken the result; the operation's locals are dropped
Returns ==
  /\ pc = "returned"
  /\ pc' = "idle"
  /\ api' = "none"
  /\ inChunks' = FALSE
  /\ tx' = NoTx
  /\ buffer' = 0
  /\ chunksRes' = NoResult
  /\ outcome' = NoResult
  /\ NoPost
  /\ FreshStream
  /\ arg' = NoArg
  /\ requests' = 0
  /\ reply' = NoReply
  /\ ret' = NoRet
  /\ UNCHANGED calls

Return == Returns /\ UNCHANGED spent

\* the same, remembering how many attempts of the call just over failed
ReturnCounting == Returns /\ spent' = retries

Next ==
  \/ \E t \in Envelopes : UploadFile(t)
  \/ \E t \in Envelopes : PostTransaction(t)
  \/ \E t \in Envelopes, cap \in 0..MaxCap : PostTransactionChunks(t, cap)
  \/ \E o \in SendOutcomes : PostAttempt(o)
  \/ PostExhausted
  \/ StreamFill
  \/ \E i \in ChunkIdx, o \in ChunkOutcomes : ChunkDone(i, o)
  \/ StreamEnd
  \/ Return

Spec == Init /\ [][Next]_vars

\* how a chunk upload of the second run can end
ShadowOutcomes == {"OK", "StatusCodeNotOk"}

\* every network call that is awaited eventually returns, and the executor
\* keeps polling the future of the operation
FairSpec ==
  /\ Spec
  /\ WF_vars(\E o \in SendOutcomes : PostAttempt(o))
  /\ WF_vars(PostExhausted)
  /\ WF_vars(StreamFill)
  /\ WF_vars(\E i \in ChunkIdx, o \in ChunkOutcomes : ChunkDone(i, o))
  /\ WF_vars(StreamEnd)

\* a first operation of any kind, then posts on the same TxClient
FirstUploadFile(t) == calls = 0 /\ UploadFile(t)
FirstPostTransactionChunks(t, cap) == calls = 0 /\ PostTransactionChunks(t, cap)

NextCalls ==
  \/ \E t \in Envelopes : FirstUploadFile(t)
  \/ \E t \in Envelopes, cap \in 0..MaxCap : FirstPostTransactionChunks(t, cap)
  \/ \E t \in Envelopes : PostTransaction(t)
  \/ \E o \in SendOutcomes : PostAttempt(o)
  \/ PostExhausted
  \/ StreamFill
  \/ \E i \in ChunkIdx, o \in ChunkOutcomes : ChunkDone(i, o)
  \/ StreamEnd
  \/ ReturnCounting

SpecCalls == Init /\ [][NextCalls]_vars

\* one chunked submission, run twice side by side
SubmitOnce(t, cap) == calls = 0 /\ PostTransactionChunks(t, cap)

NextPair ==
  \/ \E t \in Envelopes, cap \in 0..MaxCap : SubmitOnce(t, cap)
  \/ \E o \in SendOutcomes : PostAttempt(o)
  \/ PostExhausted
  \/ StreamFill
  \/ \E i \in ChunkIdx, o \in ChunkOutcomes, o2 \in ShadowOutcomes : ChunkDonePair(i, o, o2)
  \/ StreamEnd
  \/ Return

SpecPair == Init /\ [][NextPair]_vars

(* ------------------- the read endpoints --------------------------------- *)
ReadEndpoints == {"get_tx", "get_tx_data", "get_tx_status"}
\* response bodies: a transaction as JSON, a base64url payload, a status
\* record as JSON, or something that is none of them
Texts == {"tx_json", "base64url_text", "status_json", "garbage"}
\* what the gateway can do with a GET: answer a status with a body, or the
\* send fails
ReadReplies ==
  [kind : {"status"}, status : Statuses, text : Texts]
    \cup {[kind |-> "send_error", status |-> "none", text |-> "none"]}

\* reqwest::StatusCode::to_string
StatusText(st) == <<"status text", st>>

OkRet(st, b) == [kind |-> "ok", status |-> st, body |-> b, err |-> "none"]
ErrRet(e) == [kind |-> "err", status |-> "none", body |-> "none", err |-> e]
PanicRet(m) == [kind |-> "panic", status |-> "none", body |-> "none", err |-> m]
None == <<"None">>
Some(v) == <<"Some", v>>

\* TxClient::get_tx on the reply r
get_tx(r) ==
  IF r.kind = "send_error" THEN PanicRet("Could not get tx")
  ELSE IF r.status = "OK"
    THEN IF r.text = "tx_json"
           THEN OkRet("OK", Some(<<"Tx", r.text>>))
           ELSE PanicRet("Could not create Tx from string")
  ELSE IF r.status = "ACCEPTED" THEN OkRet("ACCEPTED", None)
  ELSE ErrRet(<<"TransactionInfoError", StatusText(r.status)>>)

\* TxClient::get_tx_data on the reply r
get_tx_data(r) ==
  IF r.kind = "send_error" THEN PanicRet("Could not get tx")
  ELSE IF r.status = "OK"
    THEN IF r.text = "base64url_text"
           THEN OkRet("OK", Some(<<"bytes", r.text>>))
           ELSE PanicRet("fail to decode body")
  ELSE IF r.status = "ACCEPTED" THEN OkRet("ACCEPTED", None)
  ELSE ErrRet(<<"TransactionInfoError", StatusText(r.status)>>)

\* a get_tx_status without the Accepted branch
get_tx_status_no_pending(r) ==
  IF r.kind = "send_error" THEN PanicRet("Could not get tx status")
  ELSE IF r.status = "OK"
    THEN IF r.text = "status_json"
           THEN OkRet("OK", Some(<<"TxStatus", r.text>>))
           ELSE PanicRet("Could not parse tx status")
  ELSE ErrRet(<<"TransactionInfoError", StatusText(r.status)>>)

\* TxClient::get_tx_status on the reply r
get_tx_status(r) ==
  IF r.kind = "send_error" THEN PanicRet("Could not get tx status")
  ELSE IF r.status = "OK"
    THEN IF r.text = "status_json"
           THEN OkRet("OK", Some(<<"TxStatus", r.text>>))
           ELSE PanicRet("Could not parse tx status")
  ELSE IF r.status = "ACCEPTED" THEN OkRet("ACCEPTED", None)
  ELSE ErrRet(<<"TransactionInfoError", StatusText(r.status)>>)

\* a read endpoint is called: its one request is sent and awaited
ReadCall(e) ==
  /\ CanStart
  /\ api' = e
  /\ pc' = "read"
  /\ requests' = 1
  /\ calls' = calls + 1
  /\ UNCHANGED <<inChunks, tx, buffer, chunksRes, outcome, arg, reply, ret>>
  /\ UNCHANGED postVars
  /\ UNCHANGED streamVars

\* the awaited send is over with r; the endpoint classifies it and returns
ReadReply(r) ==
  /\ pc = "read"
  /\ reply' = r
  /\ ret' = CASE api = "get_tx" -> get_tx(r)
              [] api = "get_tx_data" -> get_tx_data(r)
              [] api = "get_tx_status" -> get_tx_status(r)
  /\ pc' = "returned"
  /\ UNCHANGED <<api, inChunks, tx, buffer, chunksRes, outcome, arg, requests, calls>>
  /\ UNCHANGED postVars
  /\ UNCHANGED streamVars

(* ------------------- Signer::verify ------------------------------------- *)
\* public keys as the bytes handed to verify: the moduli of two keypairs,
\* and bytes no public key object can be built from
PubKeys == {"n_K1", "n_K2", "unbuildable"}
Messages == {"m1", "m2"}
\* signatures: those sign produces (keypair, message, salt drawn), or bytes
\* that are no signature
Signatures ==
  [key : {"n_K1", "n_K2"}, msg : Messages, salt : {1, 2}]
    \cup {[key |-> "none", msg |-> "none", salt |-> 0]}

\* jwt_str.parse() and RsaPublicKey::from_public_key_der both succeed
KeyBuilds(pk) == pk # "unbuildable"
\* the rsa crate's PSS verification of the SHA-256 digest of m
PssVerifies(pk, m, sg) == sg.key = pk /\ sg.msg = m

\* Signer::verify, lines 89-111
verify(pk, m, sg) ==
  IF ~KeyBuilds(pk) THEN PanicRet("called unwrap on an Err value")
  ELSE IF PssVerifies(pk, m, sg) THEN OkRet("none", "none")
  ELSE ErrRet("InvalidSignature")

Verify(pk, m, sg) ==
  /\ CanStart
  /\ api' = "verify"
  /\ arg' = [key |-> pk, msg |-> m, sig |-> sg]
  /\ ret' = verify(pk, m, sg)
  /\ pc' = "returned"
  /\ calls' = calls + 1
  /\ UNCHANGED <<inChunks, tx, buffer, chunksRes, outcome, requests, reply>>
  /\ UNCHANGED postVars
  /\ UNCHANGED streamVars

NextQuery ==
  \/ \E e \in ReadEndpoints : ReadCall(e)
  \/ \E r \in ReadReplies : ReadReply(r)
  \/ \E pk \in PubKeys, m \in Messages, sg \in Signatures : Verify(pk, m, sg)
  \/ Return

SpecQuery == Init /\ [][NextQuery]_vars

(* ======================= the claims ===================================== *)
\* chunk uploads started and not yet completed, counted from the history
Completed(i) == \E k \in 1..Len(results) : results[k].idx = i
InFlight == {i \in ChunkIdx : started[i] > 0 /\ ~Completed(i)}
AnyChunkStarted == next > 0 \/ \E i \in ChunkIdx : started[i] > 0
AllChunksOk == \A k \in 1..Len(results) : results[k].ok
\* position of the first failure among the collected results
FirstFailure ==
  CHOOSE k \in 1..Len(results) : ~results[k].ok /\ \A j \in 1..(k - 1) : results[j].ok

\* C1: in a chunked submission no chunk upload is started before the post of
\* the data-cleared header has returned success, whatever the cap
HeaderBeforeChunks ==
  AnyChunkStarted =>
    /\ inChunks
    /\ postCalls = 1
    /\ postRes.kind = "ok"
    /\ postTx.id = tx.id
    /\ postTx.dataLen = 0

HeaderBeforeChunks_Witness ==
  /\ pc = "stream"
  /\ buffer = 1
  /\ started[0] = 1
  /\ attempts > 1

\* C2: post_transaction_chunks returns success only if every chunk upload
\* succeeded; with a failed chunk it returns an error, the cause of the first
\* failure among the collected results
ChunkedSuccessOnlyIfAllChunksOk ==
  (pc = "returned" /\ inChunks /\ postRes.kind = "ok") =>
    /\ (chunksRes.kind = "ok") <=> AllChunksOk
    /\ chunksRes.kind = "ok" =>
         /\ Len(results) = tx.nChunks
         /\ chunksRes.id = to_string(tx.id)
         /\ chunksRes.reward = tx.reward
    /\ ~AllChunksOk => chunksRes = ErrResult(results[FirstFailure].err)
    /\ outcome.kind = "ok" => (AllChunksOk /\ Len(results) = tx.nChunks)

ChunkedSuccessOnlyIfAllChunksOk_Witness ==
  /\ pc = "returned"
  /\ inChunks
  /\ Len(results) = 3
  /\ results[1].ok
  /\ ~results[2].ok
  /\ ~results[3].ok
  /\ results[2].err # results[3].err
  /\ results[2].idx > results[3].idx

\* C3: a chunked submission whose header post succeeded has made, when it
\* returns, one post of the data-cleared header and one upload of each chunk
\* index, never two of the same index, for every cap; upload_file_from_path
\* takes this path above the threshold
ChunkedPostsHeaderThenEachChunkOnce ==
  /\ \A i \in ChunkIdx : started[i] <= 1
  /\ (api = "upload_file_from_path" /\ tx.dataLen > MAX_TX_DATA) => inChunks
  /\ (pc = "returned" /\ inChunks /\ postRes.kind = "ok") =>
       /\ postCalls = 1
       /\ postTx.id = tx.id
       /\ postTx.dataLen = 0
       /\ \A i \in ChunkIdx : started[i] = IF i < tx.nChunks THEN 1 ELSE 0

ChunkedPostsHeaderThenEachChunkOnce_Witness ==
  /\ pc = "returned"
  /\ inChunks
  /\ postRes.kind = "ok"
  /\ buffer = 1
  /\ tx.nChunks = MaxChunks
  /\ tx.dataLen > MAX_TX_DATA

\* C4: upload_file_from_path with a payload at or below the threshold posts
\* the full envelope once through post_transaction and uploads no chunk
InlineAtOrBelowThreshold ==
  (api = "upload_file_from_path" /\ tx.dataLen <= MAX_TX_DATA) =>
    /\ ~inChunks
    /\ postCalls = 1
    /\ postTx = tx
    /\ ~AnyChunkStarted
    /\ in_progress = {}
    /\ results = << >>
    /\ chunksRes = NoResult

InlineAtOrBelowThreshold_Witness ==
  /\ api = "upload_file_from_path"
  /\ tx.dataLen = MAX_TX_DATA
  /\ pc = "returned"
  /\ outcome.kind = "ok"

\* C5: the chunk uploads in flight never exceed the cap of the call, which is
\* 100 when the call comes from upload_file_from_path
InFlightWithinCap ==
  /\ Cardinality(InFlight) <= buffer
  /\ (api = "upload_file_from_path" /\ inChunks) => buffer = DEFAULT_CHUNKS_BUFFER

InFlightWithinCap_Witness ==
  /\ pc = "stream"
  /\ buffer = 2
  /\ Cardinality(InFlight) = 2
  /\ Len(results) = 1
  /\ tx.nChunks = 3

\* C6: post_transaction never sends more than CHUNKS_RETRIES requests, returns
\* StatusCodeNotOk only after exactly that many, and after that many non-OK
\* answers does nothing but return StatusCodeNotOk
PostExhaustsAfterExactlyTheBound ==
  /\ [](/\ attempts <= CHUNKS_RETRIES
        /\ postRes.err = "StatusCodeNotOk" => (attempts = CHUNKS_RETRIES /\ status # "OK"))
  /\ [][(pc = "post" /\ attempts = CHUNKS_RETRIES) =>
          (postRes' = ErrResult("StatusCodeNotOk") /\ attempts' = attempts)]_vars

PostExhaustsAfterExactlyTheBound_Witness ==
  /\ api = "post_transaction"
  /\ pc = "returned"
  /\ outcome = ErrResult("StatusCodeNotOk")
  /\ attempts = CHUNKS_RETRIES

\* C7: post_transaction returns the envelope's (id, reward) at the first OK
\* answer, the N-th request after N-1 non-OK answers, and sends nothing after
PostSucceedsAtFirstOk ==
  /\ [](postRes.kind = "ok" =>
          /\ postRes.id = postTx.id
          /\ postRes.reward = postTx.reward
          /\ status = "OK"
          /\ attempts = retries + 1
          /\ attempts \in 1..CHUNKS_RETRIES
          /\ pc # "post")
  /\ [][(pc = "post" /\ status' = "OK") => postRes'.kind = "ok"]_vars
  /\ [][postRes.kind = "ok" => (attempts' = attempts \/ pc' = "idle")]_vars

PostSucceedsAtFirstOk_Witness ==
  /\ postRes.kind = "ok"
  /\ attempts = CHUNKS_RETRIES
  /\ retries = CHUNKS_RETRIES - 1
  /\ postRes.id = <<2>>

\* C8: post_transaction on an envelope with an empty id returns
\* UnsignedTransaction at once, without a request
PostUnsignedSendsNothing ==
  (postCalls > 0 /\ postTx.id = NoId) =>
    /\ pc = "returned"
    /\ postRes = ErrResult("UnsignedTransaction")
    /\ outcome = ErrResult("UnsignedTransaction")
    /\ attempts = 0
    /\ sleeps = 0

PostUnsignedSendsNothing_Witness ==
  /\ api = "post_transaction"
  /\ tx.id = NoId
  /\ tx.dataLen > 0
  /\ pc = "returned"
  /\ postCalls = 1

\* C9: when the header post of a chunked submission fails, the submission
\* returns that error and no chunk upload is attempted
HeaderFailureAbortsSubmission ==
  (inChunks /\ postRes.kind = "err") =>
    /\ pc = "returned"
    /\ chunksRes = postRes
    /\ ~AnyChunkStarted
    /\ in_progress = {}
    /\ results = << >>

HeaderFailureAbortsSubmission_Witness ==
  /\ inChunks
  /\ postRes = ErrResult("StatusCodeNotOk")
  /\ pc = "returned"
  /\ tx.nChunks > 0
  /\ buffer > 0

\* C10: no chunk has two collected outcomes, and when the chunk phase is over
\* the collected results hold one outcome for each chunk of the envelope
OneOutcomePerChunk ==
  /\ \A j, k \in 1..Len(results) : results[j].idx = results[k].idx => j = k
  /\ (pc = "returned" /\ inChunks /\ postRes.kind = "ok") =>
       /\ Len(results) = tx.nChunks
       /\ \A i \in 0..(tx.nChunks - 1) : Completed(i)

OneOutcomePerChunk_Witness ==
  /\ pc = "returned"
  /\ inChunks
  /\ tx.nChunks = 3
  /\ buffer = 2
  /\ Cardinality({k \in 1..Len(results) : results[k].ok}) = 2
  /\ Cardinality({k \in 1..Len(results) : ~results[k].ok}) = 1
  /\ results[1].idx = 1

\* the chunk indices with a failure among the collected results rs
FailedIdx(rs) == {rs[k].idx : k \in {j \in 1..Len(rs) : ~rs[j].ok}}
\* the cause of the first failure in rs, "none" when there is none
FirstCause(rs) ==
  IF \A k \in 1..Len(rs) : rs[k].ok THEN "none"
  ELSE rs[CHOOSE k \in 1..Len(rs) : ~rs[k].ok /\ \A j \in 1..(k - 1) : rs[j].ok].err
ChunkPhaseOver == pc = "returned" /\ inChunks /\ postRes.kind = "ok"

\* C11 as claimed: the value post_transaction_chunks returns tells which
\* chunk indices failed, so two runs of one submission that return the same
\* value have the same failed indices
CallerCanTellFailedChunks ==
  (ChunkPhaseOver /\ Len(shadow) = Len(results) /\ ChunksResult(shadow) = chunksRes) =>
    FailedIdx(shadow) = FailedIdx(results)

\* C11 as amended: the value post_transaction_chunks returns on a chunk
\* failure is the cause of the first failure in completion order and nothing
\* else: two runs of one submission return the same value exactly when their
\* first failures have the same cause, whichever indices failed
ResultCarriesOnlyFirstCause ==
  (ChunkPhaseOver /\ Len(shadow) = Len(results)) =>
    /\ (ChunksResult(shadow) = chunksRes) <=> (FirstCause(shadow) = FirstCause(results))
    /\ FirstCause(results) # "none" => chunksRes = ErrResult(FirstCause(results))
    /\ \A k \in 1..Len(results) : shadow[k].idx = results[k].idx

ResultCarriesOnlyFirstCause_Witness ==
  /\ ChunkPhaseOver
  /\ Len(results) = 3
  /\ Len(shadow) = 3
  /\ chunksRes.kind = "err"
  /\ ChunksResult(shadow) = chunksRes
  /\ FailedIdx(shadow) # FailedIdx(results)
  /\ results[1].idx # 0

\* C12 as claimed: a send that fails inside post_transaction is one failed
\* attempt of the loop, so a signed post ends in failure only as an error
\* returned after CHUNKS_RETRIES attempts
TransportFailureAbsorbed ==
  (postCalls > 0 /\ postTx.id # NoId /\ postRes.kind \notin {"none", "ok"}) =>
    (postRes.kind = "err" /\ attempts = CHUNKS_RETRIES)

\* what a chunked submission reports when it fails before a header post
\* succeeded: lines 222 and 226 (client.rs 37 and 65), through expect for
\* upload_file_from_path
BeforeHeaderFailures ==
  {Expect(api, ErrResult(e), "Could not post transaction chunks") :
     e \in {"UnsignedTransaction", "StatusCodeNotOk"}}

\* C13 as claimed: a submission that fails in the chunk phase, after its
\* header post succeeded, never reports what a failure before the header
\* post reports
FailureAfterHeaderDistinct ==
  (ChunkPhaseOver /\ chunksRes.kind = "err") => outcome \notin BeforeHeaderFailures

\* the body each read endpoint decodes
ExpectedBody ==
  [e \in ReadEndpoints |->
     CASE e = "get_tx" -> "tx_json"
       [] e = "get_tx_data" -> "base64url_text"
       [] e = "get_tx_status" -> "status_json"]

\* C14: every read endpoint sends one request and classifies the status the
\* same way: OK gives (OK, Some(decoded body)), Accepted gives
\* (Accepted, None), any other status gives TransactionInfoError with the
\* status text
ReadStatusPartition ==
  (api \in ReadEndpoints /\ pc = "returned" /\ reply.kind = "status") =>
    /\ requests = 1
    /\ (reply.status = "OK" /\ reply.text = ExpectedBody[api]) =>
         (ret.kind = "ok" /\ ret.status = "OK" /\ ret.body # None /\ ret.body[1] = "Some")
    /\ reply.status = "ACCEPTED" => ret = OkRet("ACCEPTED", None)
    /\ reply.status \notin {"OK", "ACCEPTED"} =>
         ret = ErrRet(<<"TransactionInfoError", StatusText(reply.status)>>)
    /\ ret.kind = "ok" => reply.status \in {"OK", "ACCEPTED"}

ReadStatusPartition_Witness ==
  /\ api = "get_tx_status"
  /\ pc = "returned"
  /\ reply.kind = "status"
  /\ reply.status = "ACCEPTED"
  /\ reply.text = "status_json"
  /\ ret.kind = "ok"

\* C16 as claimed: verify answers every input that does not verify,
\* a public key that cannot be built included, with InvalidSignature
VerifyFailsOnlyWithInvalidSignature ==
  (api = "verify" /\ pc = "returned") =>
    ret \in {OkRet("none", "none"), ErrRet("InvalidSignature")}

\* C17: a failed chunk upload cancels nothing: every upload in flight stays
\* in flight until it has its own result, the stream is left only when every
\* index has been taken and has a result, and then each index was uploaded
\* exactly once
ChunkFailureCancelsNothing ==
  /\ [](\A i \in ChunkIdx : started[i] <= 1)
  /\ [](ChunkPhaseOver =>
          \A i \in 0..(tx.nChunks - 1) : started[i] = 1 /\ Completed(i))
  /\ [][(pc = "stream" /\ pc' # "stream") =>
          (in_progress = {} /\ next = tx.nChunks /\ Len(results) = tx.nChunks)]_vars
  /\ [][pc = "stream" =>
          \A i \in in_progress :
            i \in in_progress' \/ \E k \in 1..Len(results') : results'[k].idx = i]_vars

ChunkFailureCancelsNothing_Witness ==
  /\ ChunkPhaseOver
  /\ buffer = 1
  /\ Len(results) = 3
  /\ ~results[1].ok
  /\ results[2].ok
  /\ results[3].ok

\* C18: with a cap of at least 1, a submission that has started returns:
\* the retry loop and the chunk stream both end (a panic of the operation
\* counts as its end)
SubmissionTerminates ==
  (pc \in {"post", "stream"} /\ (inChunks => buffer >= 1)) ~> (pc = "returned")

SubmissionTerminates_Witness ==
  /\ ChunkPhaseOver
  /\ buffer = 1
  /\ Len(results) = 3
  /\ attempts = CHUNKS_RETRIES

\* C19 as claimed: a post_transaction call that made k attempts slept k-1
\* times, a sleep only ever coming between two attempts
SleepsOnlyBetweenAttempts ==
  (postCalls > 0 /\ postRes.kind \in {"ok", "err"} /\ attempts > 0) =>
    sleeps = attempts - 1

\* C20: every post_transaction call starts from retries 0 and status
\* NOT_FOUND whatever the calls before it did, counts only its own failed
\* attempts, and gives up only after CHUNKS_RETRIES attempts of its own
RetryStateLocalToCall ==
  /\ [](pc = "post" => (retries = attempts /\ retries < CHUNKS_RETRIES + 1))
  /\ [](postRes.err = "StatusCodeNotOk" => attempts = CHUNKS_RETRIES)
  /\ [][(pc # "post" /\ pc' = "post") =>
          (retries' = 0 /\ attempts' = 0 /\ status' = "NOT_FOUND")]_vars

RetryStateLocalToCall_Witness ==
  /\ spent = CHUNKS_RETRIES
  /\ api = "post_transaction"
  /\ pc = "returned"
  /\ attempts = CHUNKS_RETRIES
  /\ postRes.kind = "ok"

\* C21: post_transaction_chunks on an envelope with an empty id returns
\* UnsignedTransaction before anything else: post_transaction is not called,
\* no request is sent and no chunk upload is taken from the stream
ChunksUnsignedDoesNothing ==
  (api = "post_transaction_chunks" /\ tx.id = NoId) =>
    /\ pc = "returned"
    /\ chunksRes = ErrResult("UnsignedTransaction")
    /\ outcome = ErrResult("UnsignedTransaction")
    /\ postCalls = 0
    /\ postTx = NoTx
    /\ attempts = 0
    /\ sleeps = 0
    /\ next = 0
    /\ in_progress = {}
    /\ results = <<>>
    /\ ~AnyChunkStarted

ChunksUnsignedDoesNothing_Witness ==
  /\ api = "post_transaction_chunks"
  /\ tx.id = NoId
  /\ tx.nChunks > 1
  /\ buffer >= 1
  /\ pc = "returned"
  /\ chunksRes.err = "UnsignedTransaction"

====
